---- MODULE Spec2Model ----
(***************************************************************************)
(* A model of the e-invite WSGI application (invite_app.py): the SQLite    *)
(* tables users, events, invites and comments, the in-memory session       *)
(* store, and one action per request handler, plus the process restart     *)
(* that re-runs init_db.  The anonymous RSVP handler is also given in two   *)
(* steps, for servers that handle several requests at a time.              *)
(*                                                                         *)
(* Text values are sequences of string chunks.  Fields the code inspects   *)
(* character by character (strip) are spelled with their whitespace as     *)
(* separate " " chunks, so <<" ", "a@x">> is the text " a@x".              *)
(***************************************************************************)
EXTENDS Integers, Sequences, FiniteSets, TLC

VARIABLES
    users,      \* rows of table users
    events,     \* rows of table events
    invites,    \* rows of table invites
    comments,   \* rows of table comments
    sessions,   \* the module-level dict sessions: session id -> user id
    accepted,   \* history: the <<event id, phone>> pairs that anonymous RSVPs
                \* have stored so far (not a variable of the program)
    resp,       \* the response of the last request (status, body, headers)
    outbox,     \* the calls of send_email made by the last request, in order
    smtp,       \* what an attempt to deliver an email meets (configuration
                \* and network; the environment of the program)
    inflight    \* per worker, the anonymous RSVP request it is handling
                \* between its duplicate lookup and its write

vars == <<users, events, invites, comments, sessions, accepted, resp, outbox,
          smtp, inflight>>

----------------------------------------------------------------------------
(* Bounds of the model *)

\* Cap on the number of invites rows.
MaxInvites == 2
\* Cap on the number of comments rows.
MaxComments == 2
\* Size of the universe of session ids secrets.token_hex can return.
NumSids == 1
\* Number of workers (threads or processes) that serve requests at a time.
NumWorkers == 2

----------------------------------------------------------------------------
(* Values *)

\* Python None / SQL NULL in an integer position (row ids start at 1).
NONE == 0
\* SQL NULL / Python None in a text position; no form field carries it.
NULL == <<"<NULL>">>
\* The empty string.
EMPTY == <<>>
Whitespace == {" "}

SIDs == 1..NumSids
\* A universe with one more session id, for the specification of the sessions.
MoreSIDs == 1..(NumSids + 1)
Workers == 1..NumWorkers

Max(S) == CHOOSE m \in S : \A x \in S : x <= m

\* str.strip(): drop leading and trailing whitespace.
RECURSIVE lstrip(_)
lstrip(s) ==
    IF s # EMPTY /\ Head(s) \in Whitespace THEN lstrip(Tail(s)) ELSE s

RECURSIVE rstrip(_)
rstrip(s) ==
    IF s # EMPTY /\ s[Len(s)] \in Whitespace
    THEN rstrip(SubSeq(s, 1, Len(s) - 1))
    ELSE s

strip(s) == rstrip(lstrip(s))

\* hashlib.sha256(password).hexdigest(): a deterministic digest, taken to be
\* collision free on the passwords of the model.  It is not the password.
hash_password(password) == <<"sha256">> \o password

\* parse_post: urllib.parse.parse_qs drops fields with blank values, and the
\* first value of each remaining key is kept.
parse_post(body) ==
    [k \in {f \in DOMAIN body : body[f] # EMPTY} |-> body[k]]

\* dict.get(key, default)
Get(params, key, default) ==
    IF key \in DOMAIN params THEN params[key] ELSE default

\* Mutant of get_user_from_session: the cookie is ignored.
no_user_from_session(cookie) == NONE

\* get_user_from_session: the user id of the session cookie, None when the
\* request has no cookie or the session id is not in the store.
get_user_from_session(cookie) ==
    IF cookie # NONE THEN sessions[cookie] ELSE NONE

\* cursor.fetchone() on a SELECT without ORDER BY: the row with the lowest id.
first(rows) == CHOOSE r \in rows : \A q \in rows : r.id <= q.id

\* secrets.token_hex(16): a session id that is not in use (a collision of two
\* 128 bit random values is left out).
token_hex == {s \in DOMAIN sessions : sessions[s] = NONE}

\* int(text): optional surrounding whitespace, an optional sign, then digits.
Digits == <<"0", "1", "2", "3", "4", "5", "6", "7", "8", "9">>
DigitValue(ch) == (CHOOSE d \in 1..Len(Digits) : Digits[d] = ch) - 1
IsDigit(ch) == \E d \in 1..Len(Digits) : Digits[d] = ch

RECURSIVE digits_value(_)
digits_value(s) ==
    IF s = EMPTY THEN 0
    ELSE 10 * digits_value(SubSeq(s, 1, Len(s) - 1)) + DigitValue(s[Len(s)])

unsigned(s) == IF s # EMPTY /\ Head(s) \in {"+", "-"} THEN Tail(s) ELSE s

is_int(text) ==
    LET u == unsigned(strip(text))
    IN u # EMPTY /\ \A k \in 1..Len(u) : IsDigit(u[k])

int(text) ==
    LET t == strip(text)
    IN IF Head(t) = "-" THEN 0 - digits_value(unsigned(t))
       ELSE digits_value(unsigned(t))

\* int(params.get(key, default)) does not raise ValueError
int_ok(params, key) == key \in DOMAIN params => is_int(params[key])
\* int(params.get(key, default))
int_or(params, key, default) ==
    IF key \in DOMAIN params THEN int(params[key]) ELSE default

\* Mutant of insert_or_replace: invites with a UNIQUE(event_id, user_id)
\* constraint, under which the conflicting row is deleted before the insert.
insert_or_replace_by_pair(rows, new) ==
    {r \in rows : ~(r.event_id = new.event_id /\ r.user_id = new.user_id)}
    \cup {new}

\* INSERT OR REPLACE INTO invites: the only uniqueness constraint of the table
\* is its primary key, so a row is replaced only when it has the new row's id.
insert_or_replace(rows, new) ==
    {r \in rows : r.id # new.id} \cup {new}

\* Mutant of lastrowid: the highest id in use is handed out again.
lastrowid_reused(table) == Max({r.id : r \in table} \cup {1})

\* The row id SQLite assigns to the next row of an AUTOINCREMENT table from
\* which no row is ever deleted.
lastrowid(table) == Max({r.id : r \in table} \cup {0}) + 1

\* time.time() when a comment is stored: later than every stored timestamp.
time_time == Max({c.timestamp : c \in comments} \cup {0}) + 1

----------------------------------------------------------------------------
(* Responses *)

NoLocation == [path |-> "", id |-> 0, query |-> EMPTY]
Location(path, id, query) == [path |-> path, id |-> id, query |-> query]

\* start_response(status, headers) followed by the body.
Response(status, body, error, location, set_cookie) ==
    [status |-> status, body |-> body, error |-> error,
     location |-> location, set_cookie |-> set_cookie]

Html(template, error) == Response(200, template, error, NoLocation, NONE)
Redirect(location) == Response(302, "", "", location, NONE)
Plain(status, text) == Response(status, text, "", NoLocation, NONE)
\* An exception that leaves application(): the WSGI server answers 500.
Unhandled(exception) == Response(500, "", exception, NoLocation, NONE)
\* No request handled yet by this process.
NoResponse == Response(0, "", "", NoLocation, NONE)
\* template.render(**context) answered 200: the keyword arguments that the
\* handler computes from the database and the request are kept.
Page(template, context) ==
    [status |-> 200, body |-> template, error |-> "", location |-> NoLocation,
     set_cookie |-> NONE, context |-> context]

----------------------------------------------------------------------------
(* send_rsvp_confirmation_emails *)

\* No call of send_email.
NoMail == <<>>

\* if text: a Python string is true when it is neither None nor empty.
truthy(text) == text # NULL /\ text # EMPTY

\* What an attempt to deliver can meet: SMTP_USERNAME or SMTP_PASSWORD not
\* set; socket.gethostbyname(SMTP_SERVER) fails; smtplib raises while
\* connecting, logging in or sending; the message is sent.  The attempts of
\* one request meet the same condition.
SmtpConditions == {"unconfigured", "dns_failure", "smtp_error", "sent"}

\* Mutant of send_email_returns: the SMTP step without its try/except.
send_email_raises(to_email) ==
    IF smtp = "unconfigured" \/ ~truthy(to_email) THEN "False"
    ELSE IF smtp = "dns_failure" THEN "False"
    ELSE IF smtp = "smtp_error" THEN "raises"
    ELSE "True"

\* The result of send_email: False without configuration or recipient, False
\* when the DNS lookup raises, False when the SMTP step raises (both are
\* wrapped in try/except Exception), True when the message was sent.
send_email_returns(to_email) ==
    IF smtp = "unconfigured" \/ ~truthy(to_email) THEN "False"
    ELSE IF smtp = "dns_failure" THEN "False"
    ELSE IF smtp = "smtp_error" THEN "False"
    ELSE "True"

\* send_email(to_email, to_name, subject, body): one attempt to deliver and
\* what it returned.  Of the body the status text is kept.
send_email(to_email, to_name, subject, status_text) ==
    [to_email |-> to_email, to_name |-> to_name, subject |-> subject,
     status_text |-> status_text, returned |-> send_email_returns(to_email)]

\* An exception left a call of send_email.  No caller of the confirmation
\* step wraps it in try/except, so the exception would leave application().
raised(mails) == \E k \in DOMAIN mails : mails[k].returned = "raises"

\* The calls of send_email the confirmation step makes, in order: none when
\* the event does not exist, else one to the guest when guest_email is true,
\* then one to the host when SELECT email FROM users WHERE is_admin=1 LIMIT 1
\* returns an address.  It reads events and users after the RSVP is committed;
\* no RSVP request changes either table.
send_rsvp_confirmation_emails(event_id, guest_name, guest_email, rsvp) ==
    LET event == {e \in events : e.id = event_id}
        host_result == {u \in users : u.is_admin = 1}
    IN
    IF event = {} THEN NoMail
    ELSE LET event_title == first(event).title
             host_name == first(event).host
             host_email == IF host_result # {} THEN first(host_result).email
                           ELSE NULL
             status_text == IF rsvp = <<"yes">> THEN "attending"
                            ELSE "not attending"
         IN (IF truthy(guest_email)
             THEN <<send_email(guest_email, guest_name,
                               <<"RSVP Confirmation: ">> \o event_title,
                               status_text)>>
             ELSE NoMail)
            \o
            (IF truthy(host_email)
             THEN <<send_email(host_email, host_name,
                               <<"New RSVP: ">> \o guest_name \o <<" - ">>
                                  \o event_title,
                               status_text)>>
             ELSE NoMail)

----------------------------------------------------------------------------
(* init_db *)

DefaultEvent ==
    [id |-> 1,
     title |-> <<"A little pearl is on the way">>,
     description |-> <<"Celebrate with us over love, laughter, and lunch as we await our baby's arrival.">>,
     host |-> <<"Rohan">>,
     datetime |-> <<"2025-10-04T11:00:00">>,
     location |-> <<"Beaver Lake Park - Lodge, 25101 SE 24th St, Sammamish, WA 98075">>,
     registry1 |-> <<"https://www.babylist.com">>,
     registry2 |-> <<"https://www.amazon.com">>,
     header_image |-> <<"header.png">>,
     card_theme |-> <<"ocean">>]

\* The invites migration: every start creates invites_new, copies every row
\* with guest_phone replaced by NULL, drops invites and renames invites_new.
\* (The quantities and is_anonymous are never NULL in a row the application
\* wrote, so their COALESCE is the identity.)
migrate_invites(rows) ==
    {[r EXCEPT !.guest_phone = NULL] : r \in rows}

\* Mutant of default_records: the default event is inserted at every start.
default_records_always(rows) ==
    rows \cup {[DefaultEvent EXCEPT !.id = Max({r.id : r \in rows} \cup {0}) + 1]}

\* The default event is inserted when the events table is empty.
default_records(rows) ==
    IF Cardinality(rows) = 0 THEN {DefaultEvent} ELSE rows

\* A worker that is not between the two steps of an anonymous RSVP request.
Idle == [pc |-> "idle"]

Init ==
    /\ users = {}
    /\ events = default_records({})
    /\ invites = migrate_invites({})
    /\ comments = {}
    /\ sessions = [s \in SIDs |-> NONE]
    /\ accepted = {}
    /\ resp = NoResponse
    /\ outbox = NoMail
    /\ smtp = "unconfigured"
    /\ inflight = [w \in Workers |-> Idle]

\* The same start, with the session ids drawn from the larger universe.
InitSessions ==
    /\ users = {}
    /\ events = default_records({})
    /\ invites = migrate_invites({})
    /\ comments = {}
    /\ sessions = [s \in MoreSIDs |-> NONE]
    /\ accepted = {}
    /\ resp = NoResponse
    /\ outbox = NoMail
    /\ smtp = "unconfigured"
    /\ inflight = [w \in Workers |-> Idle]

\* The same start, under each condition the delivery of email can meet.
InitEmail ==
    /\ users = {}
    /\ events = default_records({})
    /\ invites = migrate_invites({})
    /\ comments = {}
    /\ sessions = [s \in SIDs |-> NONE]
    /\ accepted = {}
    /\ resp = NoResponse
    /\ outbox = NoMail
    /\ smtp \in SmtpConditions
    /\ inflight = [w \in Workers |-> Idle]

\* Mutant of no_sessions: a session store that outlives the process.
kept_sessions == sessions

\* sessions = {} when the module is loaded: no session id maps to a user.
no_sessions == [s \in DOMAIN sessions |-> NONE]

\* A process restart: the session dict starts empty and init_db runs again.
\* The comments table already has comment_name, so it is left alone.
Restart ==
    /\ sessions' = no_sessions
    /\ invites' = migrate_invites(invites)
    /\ events' = default_records(events)
    /\ resp' = NoResponse
    /\ UNCHANGED <<users, comments, accepted>>
    /\ outbox' = NoMail
    /\ inflight' = [w \in Workers |-> Idle]
    /\ UNCHANGED smtp

----------------------------------------------------------------------------
(* POST /register *)

\* Mutant of email_taken: the users table without its UNIQUE constraint.
email_taken_never(email) == FALSE

\* The UNIQUE constraint of users.email: the INSERT raises IntegrityError.
email_taken(email) == \E u \in users : u.email = email

\* Mutant of is_first_user: every new user is made an admin.
is_first_user_always(user_count) == 1

\* The first user to register becomes the admin.
is_first_user(user_count) == IF user_count = 0 THEN 1 ELSE 0

RegisterPost(body) ==
    LET params == parse_post(body)
        name == strip(Get(params, "name", EMPTY))
        email == strip(Get(params, "email", EMPTY))
        password == Get(params, "password", EMPTY)
    IN
    IF ~(name # EMPTY /\ email # EMPTY /\ password # EMPTY)
    THEN /\ resp' = Html("register.html", "Please fill all fields.")
         /\ UNCHANGED <<users, events, invites, comments, sessions, accepted>>
         /\ UNCHANGED <<smtp, inflight>>
         /\ outbox' = NoMail
    ELSE IF email_taken(email)
    THEN \* UNIQUE(email): sqlite3.IntegrityError, the connection is closed
         \* without a commit
         /\ resp' = Html("register.html", "Email already registered.")
         /\ UNCHANGED <<users, events, invites, comments, sessions, accepted>>
         /\ UNCHANGED <<smtp, inflight>>
         /\ outbox' = NoMail
    ELSE
         LET user_count == Cardinality(users)
             user_id == lastrowid(users)
         IN
         /\ Cardinality(invites) < MaxInvites
         /\ \E session_id \in token_hex :
              /\ users' = users \cup
                    {[id |-> user_id, name |-> name, email |-> email,
                      password_hash |-> hash_password(password),
                      is_admin |-> is_first_user(user_count)]}
              /\ invites' = invites \cup
                    {[id |-> lastrowid(invites), event_id |-> 1,
                      user_id |-> user_id, rsvp |-> NULL,
                      adults_qty |-> 1, kids_qty |-> 0,
                      guest_name |-> NULL, guest_email |-> NULL,
                      guest_phone |-> NULL, is_anonymous |-> 0]}
              /\ sessions' = [sessions EXCEPT ![session_id] = user_id]
              /\ resp' = Response(302, "", "", Location("/", 0, EMPTY),
                                  session_id)
              /\ UNCHANGED <<events, comments, accepted>>
              /\ UNCHANGED <<smtp, inflight>>
              /\ outbox' = NoMail

----------------------------------------------------------------------------
(* POST /login *)

\* Mutant of credentials_match: the password is not compared.
credentials_match_email_only(rows, password) == rows # {}

\* row and hash_password(password) == row[1], for the rows the SELECT by
\* email returns
credentials_match(rows, password) ==
    rows # {} /\ hash_password(password) = first(rows).password_hash

LoginPost(body) ==
    LET params == parse_post(body)
        email == strip(Get(params, "email", EMPTY))
        password == Get(params, "password", EMPTY)
        rows == {u \in users : u.email = email}
    IN
    IF credentials_match(rows, password)
    THEN LET user_id == first(rows).id IN
         \E session_id \in token_hex :
            /\ sessions' = [sessions EXCEPT ![session_id] = user_id]
            /\ resp' = Response(302, "", "", Location("/", 0, EMPTY),
                                session_id)
            /\ UNCHANGED <<users, events, invites, comments, accepted>>
            /\ UNCHANGED <<smtp, inflight>>
            /\ outbox' = NoMail
    ELSE /\ resp' = Html("login.html", "Invalid email or password.")
         /\ UNCHANGED <<users, events, invites, comments, sessions, accepted>>
         /\ UNCHANGED <<smtp, inflight>>
         /\ outbox' = NoMail

----------------------------------------------------------------------------
(* /logout, any method *)

\* Set-Cookie: session_id=""; expires=Thu, 01 Jan 1970 00:00:00 GMT
EXPIRED == -1

\* Mutant of pop: the session stays in the store.
pop_nothing(dict, key) == dict

\* dict.pop(key, None)
pop(dict, key) == [dict EXCEPT ![key] = NONE]

Logout(cookie) ==
    /\ sessions' = IF cookie # NONE THEN pop(sessions, cookie) ELSE sessions
    /\ resp' = Response(302, "", "", Location("/event/", 1, EMPTY),
                        IF cookie # NONE THEN EXPIRED ELSE NONE)
    /\ UNCHANGED <<users, events, invites, comments, accepted>>
    /\ UNCHANGED <<smtp, inflight>>
    /\ outbox' = NoMail

----------------------------------------------------------------------------
(* POST /event/<event_id> *)

EventPost(event_id, cookie, body) ==
    LET user_id == get_user_from_session(cookie)
        params == parse_post(body)
        action == Get(params, "action", EMPTY)
        response == Get(params, "response", EMPTY)
        comment_text == strip(Get(params, "comment", EMPTY))
        comment_name == strip(Get(params, "comment_name", EMPTY))
        done == Redirect(Location("/event/", event_id, EMPTY))
    IN
    IF action = <<"rsvp">> /\ response \in {<<"yes">>, <<"no">>}
    THEN IF response = <<"yes">>
            /\ ~(   int_ok(params, "adults_qty")
                 /\ int_ok(params, "kids_qty"))
         THEN \* int() raises ValueError before anything is written
              /\ resp' = Unhandled("ValueError")
              /\ UNCHANGED <<users, events, invites, comments, sessions, accepted>>
              /\ UNCHANGED <<smtp, inflight>>
              /\ outbox' = NoMail
         ELSE LET adults_qty == IF response = <<"yes">>
                                THEN int_or(params, "adults_qty", 1)
                                ELSE 1
                  kids_qty == IF response = <<"yes">>
                              THEN int_or(params, "kids_qty", 0)
                              ELSE 0
              IN
              /\ Cardinality(invites) < MaxInvites
              /\ invites' = insert_or_replace(invites,
                    [id |-> lastrowid(invites), event_id |-> event_id,
                     user_id |-> user_id, rsvp |-> response,
                     adults_qty |-> adults_qty, kids_qty |-> kids_qty,
                     guest_name |-> NULL, guest_email |-> NULL,
                     guest_phone |-> NULL, is_anonymous |-> 0])
              /\ outbox' =
                    \* user_result: the users row of the session's user
                    LET user_result == {u \in users : u.id = user_id} IN
                    IF user_result # {}
                    THEN send_rsvp_confirmation_emails(event_id,
                            first(user_result).name, first(user_result).email,
                            response)
                    ELSE NoMail
              /\ resp' = IF raised(outbox') THEN Unhandled("SMTPException")
                         ELSE done
              /\ UNCHANGED <<users, events, comments, sessions, accepted>>
              /\ UNCHANGED <<smtp, inflight>>
    ELSE IF action = <<"comment">>
            /\ comment_text # EMPTY /\ comment_name # EMPTY
    THEN /\ Cardinality(comments) < MaxComments
         /\ comments' = comments \cup
               {[id |-> lastrowid(comments), event_id |-> event_id,
                 user_id |-> get_user_from_session(cookie),
                 comment |-> comment_text, comment_name |-> comment_name,
                 timestamp |-> time_time]}
         /\ resp' = done
         /\ UNCHANGED <<users, events, invites, sessions, accepted>>
         /\ UNCHANGED <<smtp, inflight>>
         /\ outbox' = NoMail
    ELSE /\ resp' = done
         /\ UNCHANGED <<users, events, invites, comments, sessions, accepted>>
         /\ UNCHANGED <<smtp, inflight>>
         /\ outbox' = NoMail

----------------------------------------------------------------------------
(* POST /admin/event/<event_id> *)

\* Mutant of admin_required: any logged-in user passes.
admin_required_no_flag(user_row) == user_row = {}

\* not user_row or not user_row[0], for the rows SELECT is_admin returns
admin_required(user_row) == user_row = {} \/ first(user_row).is_admin = 0

\* Mutant of where_id: an UPDATE without its WHERE clause.
where_every_row(row, id) == TRUE

\* WHERE id=?
where_id(row, id) == row.id = id

AdminEventPost(event_id, cookie, body) ==
    LET user_id == get_user_from_session(cookie)
        user_row == {u \in users : u.id = user_id}
        params == parse_post(body)
    IN
    IF user_id = NONE
    THEN /\ resp' = Redirect(Location("/login", 0, EMPTY))
         /\ UNCHANGED <<users, events, invites, comments, sessions, accepted>>
         /\ UNCHANGED <<smtp, inflight>>
         /\ outbox' = NoMail
    ELSE IF admin_required(user_row)
    THEN /\ resp' = Plain(403, "Admin access required")
         /\ UNCHANGED <<users, events, invites, comments, sessions, accepted>>
         /\ UNCHANGED <<smtp, inflight>>
         /\ outbox' = NoMail
    ELSE /\ events' =
            {IF where_id(e, event_id)
             THEN [e EXCEPT
                     !.title = Get(params, "title", EMPTY),
                     !.description = Get(params, "description", EMPTY),
                     !.host = Get(params, "host", EMPTY),
                     !.datetime = Get(params, "datetime", EMPTY),
                     !.location = Get(params, "location", EMPTY),
                     !.registry1 = Get(params, "registry1", EMPTY),
                     !.registry2 = Get(params, "registry2", EMPTY),
                     !.card_theme = Get(params, "card_theme", <<"ocean">>)]
             ELSE e : e \in events}
         /\ resp' = Redirect(Location("/event/", event_id, EMPTY))
         /\ UNCHANGED <<users, invites, comments, sessions, accepted>>
         /\ UNCHANGED <<smtp, inflight>>
         /\ outbox' = NoMail

----------------------------------------------------------------------------
(* POST /anonymous-rsvp/<event_id> *)

\* SELECT id, guest_name FROM invites
\*    WHERE event_id=? AND guest_phone=? AND is_anonymous=1
rsvp_by_phone(event_id, guest_phone) ==
    {i \in invites : /\ i.event_id = event_id
                     /\ i.guest_phone = guest_phone
                     /\ i.is_anonymous = 1}

\* The handler from the point where the duplicate lookup has returned
\* existing_rsvp and closed its connection: the UPDATE, the validation or the
\* INSERT, each write on a connection of its own.
AnonymousRsvpStore(event_id, body, existing_rsvp) ==
    LET params == parse_post(body)
        guest_name == strip(Get(params, "guest_name", EMPTY))
        guest_email == strip(Get(params, "guest_email", EMPTY))
        guest_phone == strip(Get(params, "guest_phone", EMPTY))
        rsvp == Get(params, "rsvp", EMPTY)
        adults_qty == int_or(params, "adults_qty", 1)
        kids_qty == int_or(params, "kids_qty", 0)
        event == {e \in events : e.id = event_id}
        done == Redirect(Location("/event/", event_id,
                                  <<"rsvp_success=">> \o rsvp))
    IN
    IF existing_rsvp # {}
    THEN \* Phone number already used: update the existing RSVP
         /\ invites' =
               {IF i \in rsvp_by_phone(event_id, guest_phone)
                THEN [i EXCEPT !.guest_name = guest_name,
                               !.guest_email = guest_email,
                               !.rsvp = rsvp,
                               !.adults_qty = adults_qty,
                               !.kids_qty = kids_qty]
                ELSE i : i \in invites}
         /\ accepted' = accepted \cup {<<event_id, guest_phone>>}
         /\ outbox' = send_rsvp_confirmation_emails(event_id, guest_name,
                                                     guest_email, rsvp)
         /\ resp' = IF raised(outbox') THEN Unhandled("SMTPException")
                    ELSE done
         /\ UNCHANGED <<users, events, comments, sessions>>
         /\ UNCHANGED smtp
    ELSE IF /\ (   guest_name = EMPTY \/ guest_phone = EMPTY
                \/ rsvp \notin {<<"yes">>, <<"no">>})
            /\ event # {}
    THEN \* the error form is rendered with calendar_links, a local that this
         \* branch never assigns
         /\ resp' = Unhandled("UnboundLocalError")
         /\ UNCHANGED <<users, events, invites, comments, sessions, accepted>>
         /\ UNCHANGED smtp
         /\ outbox' = NoMail
    ELSE \* Save anonymous RSVP
         /\ Cardinality(invites) < MaxInvites
         /\ invites' = invites \cup
               {[id |-> lastrowid(invites), event_id |-> event_id,
                 user_id |-> NONE, rsvp |-> rsvp,
                 adults_qty |-> adults_qty, kids_qty |-> kids_qty,
                 guest_name |-> guest_name, guest_email |-> guest_email,
                 guest_phone |-> guest_phone, is_anonymous |-> 1]}
         /\ accepted' = accepted \cup {<<event_id, guest_phone>>}
         /\ outbox' = send_rsvp_confirmation_emails(event_id, guest_name,
                                                     guest_email, rsvp)
         /\ resp' = IF raised(outbox') THEN Unhandled("SMTPException")
                    ELSE done
         /\ UNCHANGED <<users, events, comments, sessions>>
         /\ UNCHANGED smtp

\* The request handled without another request in between.
AnonymousRsvpPost(event_id, body) ==
    LET params == parse_post(body)
        guest_phone == strip(Get(params, "guest_phone", EMPTY))
    IN
    IF ~(int_ok(params, "adults_qty") /\ int_ok(params, "kids_qty"))
    THEN /\ resp' = Unhandled("ValueError")
         /\ UNCHANGED <<users, events, invites, comments, sessions, accepted>>
         /\ UNCHANGED <<smtp, inflight>>
         /\ outbox' = NoMail
    ELSE /\ AnonymousRsvpStore(event_id, body,
                               rsvp_by_phone(event_id, guest_phone))
         /\ UNCHANGED inflight

\* The request under concurrent handling, in two steps of worker w.  First
\* the form is parsed and the duplicate lookup made; its result is kept by
\* the worker.
LookedUp(event_id, body, existing_rsvp) ==
    [pc |-> "looked_up", event_id |-> event_id, body |-> body,
     existing_rsvp |-> existing_rsvp]

AnonymousRsvpLookup(w, event_id, body) ==
    LET params == parse_post(body)
        guest_phone == strip(Get(params, "guest_phone", EMPTY))
    IN
    /\ inflight[w] = Idle
    /\ IF ~(int_ok(params, "adults_qty") /\ int_ok(params, "kids_qty"))
       THEN /\ resp' = Unhandled("ValueError")
            /\ outbox' = NoMail
            /\ UNCHANGED inflight
       ELSE /\ inflight' = [inflight EXCEPT ![w] =
                  LookedUp(event_id, body,
                           rsvp_by_phone(event_id, guest_phone))]
            /\ UNCHANGED <<resp, outbox>>
    /\ UNCHANGED <<users, events, invites, comments, sessions, accepted, smtp>>

\* Then the worker goes on with the result of its lookup, whatever other
\* requests have written since.
AnonymousRsvpFinish(w) ==
    /\ inflight[w] # Idle
    /\ AnonymousRsvpStore(inflight[w].event_id, inflight[w].body,
                          inflight[w].existing_rsvp)
    /\ inflight' = [inflight EXCEPT ![w] = Idle]

----------------------------------------------------------------------------
(* GET /event/<event_id> *)

\* value or default
Or(value, default) == IF truthy(value) THEN value ELSE default

\* ORDER BY comments.timestamp ASC
RECURSIVE order_by_timestamp(_)
order_by_timestamp(rows) ==
    IF rows = {} THEN <<>>
    ELSE LET r == CHOOSE x \in rows : \A y \in rows : x.timestamp <= y.timestamp
         IN <<r>> \o order_by_timestamp(rows \ {r})

\* COALESCE(users.name, comments.comment_name) over comments LEFT JOIN users
display_name(comment_row) ==
    LET user == {u \in users : u.id = comment_row.user_id}
    IN IF user # {} THEN first(user).name ELSE comment_row.comment_name

\* Mutant of EventGet: opening the event page ends the visitor's session.
EventGetEndingSession(event_id, cookie, query) ==
    /\ sessions' = IF cookie # NONE THEN pop(sessions, cookie) ELSE sessions
    /\ resp' = Plain(404, "Event not found")
    /\ outbox' = NoMail
    /\ UNCHANGED <<users, events, invites, comments, accepted>>
    /\ UNCHANGED <<smtp, inflight>>

\* query is the rsvp_success parameter of the query string, NULL when absent.
\* The date and time display strings, the calendar links and the age of each
\* comment are renderings of stored values and of the clock; they are left
\* out of the context.
EventGet(event_id, cookie, query) ==
    LET user_id == get_user_from_session(cookie)
        event == {e \in events : e.id = event_id}
        user_row == {u \in users : u.id = user_id}
        rsvp_row == {i \in invites : i.event_id = event_id /\ i.user_id = user_id}
        raw_comments ==
            order_by_timestamp({c \in comments : c.event_id = event_id})
    IN
    /\ resp' =
          IF event = {}
          THEN Plain(404, "Event not found")
          ELSE Page("event.html",
                 [title |-> first(event).title,
                  user_name |-> IF user_id # NONE /\ user_row # {}
                                THEN first(user_row).name ELSE <<"Guest">>,
                  is_admin |-> IF user_id # NONE /\ user_row # {}
                               THEN first(user_row).is_admin ELSE 0,
                  rsvp_status |-> IF user_id # NONE
                                  THEN IF rsvp_row # {} THEN first(rsvp_row).rsvp
                                       ELSE NULL
                                  ELSE query,
                  adults_qty |-> IF user_id # NONE /\ rsvp_row # {}
                                 THEN first(rsvp_row).adults_qty ELSE 1,
                  kids_qty |-> IF user_id # NONE /\ rsvp_row # {}
                               THEN first(rsvp_row).kids_qty ELSE 0,
                  comments |-> [k \in DOMAIN raw_comments |->
                                  [comment |-> raw_comments[k].comment,
                                   display_name |-> display_name(raw_comments[k])]],
                  event_id |-> event_id])
    /\ outbox' = NoMail
    /\ UNCHANGED <<users, events, invites, comments, sessions, accepted>>
    /\ UNCHANGED <<smtp, inflight>>

----------------------------------------------------------------------------
(* GET /admin/event/<event_id> *)

\* The users columns of a row of invites LEFT JOIN users that no user matches.
NoUser == [id |-> NONE, name |-> NULL, email |-> NULL]

\* Mutant of left_join: an inner join, which drops the rows without a user.
inner_join(invite_rows, user_rows) ==
    {<<i, u>> \in invite_rows \X user_rows : u.id = i.user_id}

\* invites i LEFT JOIN users u ON u.id = i.user_id: one row for each pair that
\* matches, and one row with NULL users columns for each invite that no user
\* matches.
left_join(invite_rows, user_rows) ==
    {<<i, u>> \in invite_rows \X user_rows : u.id = i.user_id}
    \cup {<<i, NoUser>> : i \in {j \in invite_rows :
                                    \A u \in user_rows : u.id # j.user_id}}

\* The rows the guest list query returns for an event (their order, by name,
\* decides only the order of the guest list).
guest_rows(event_id) ==
    left_join({i \in invites : i.event_id = event_id}, users)

\* The loop over guest_rows that counts the responses and adds up the party
\* sizes; a quantity of NULL or 0 counts as 1 adult, 0 kids.
RECURSIVE rsvp_stats(_)
rsvp_stats(rows) ==
    IF rows = {}
    THEN [attending |-> 0, not_attending |-> 0, no_response |-> 0,
          total_adults |-> 0, total_kids |-> 0]
    ELSE LET row == CHOOSE x \in rows : TRUE
             i == row[1]
             rest == rsvp_stats(rows \ {row})
         IN IF i.rsvp = <<"yes">>
            THEN [rest EXCEPT
                    !.attending = @ + 1,
                    !.total_adults = @ + (IF i.adults_qty # 0 THEN i.adults_qty ELSE 1),
                    !.total_kids = @ + i.kids_qty]
            ELSE IF i.rsvp = <<"no">>
            THEN [rest EXCEPT !.not_attending = @ + 1]
            ELSE [rest EXCEPT !.no_response = @ + 1]

AdminEventGet(event_id, cookie) ==
    LET user_id == get_user_from_session(cookie)
        user_row == {u \in users : u.id = user_id}
        event_row == {e \in events : e.id = event_id}
    IN
    /\ resp' =
          IF user_id = NONE
          THEN Redirect(Location("/login", 0, EMPTY))
          ELSE IF admin_required(user_row)
          THEN Plain(403, "Admin access required")
          ELSE IF event_row = {}
          THEN Plain(404, "Event not found")
          ELSE Page("admin.html",
                 [event |-> [id |-> first(event_row).id,
                             title |-> first(event_row).title,
                             description |-> Or(first(event_row).description, EMPTY),
                             host |-> Or(first(event_row).host, EMPTY),
                             datetime |-> Or(first(event_row).datetime, EMPTY),
                             location |-> Or(first(event_row).location, EMPTY),
                             registry1 |-> Or(first(event_row).registry1, EMPTY),
                             registry2 |-> Or(first(event_row).registry2, EMPTY),
                             header_image |-> Or(first(event_row).header_image, EMPTY),
                             card_theme |-> Or(first(event_row).card_theme, <<"ocean">>)],
                  event_id |-> event_id,
                  rsvp_stats |-> rsvp_stats(guest_rows(event_id))])
    /\ outbox' = NoMail
    /\ UNCHANGED <<users, events, invites, comments, sessions, accepted>>
    /\ UNCHANGED <<smtp, inflight>>

----------------------------------------------------------------------------
(* The other GET requests *)

\* No GET handler writes to the database, to the session store or sends mail.
ReadOnly ==
    /\ outbox' = NoMail
    /\ UNCHANGED <<users, events, invites, comments, sessions, accepted>>
    /\ UNCHANGED <<smtp, inflight>>

\* GET /static/<file>: is_file tells whether the file exists under BASE_DIR.
StaticGet(is_file) ==
    /\ resp' = IF is_file THEN Plain(200, "file") ELSE Plain(404, "Not Found")
    /\ ReadOnly

\* GET /
IndexGet ==
    /\ resp' = Redirect(Location("/event/", 1, EMPTY))
    /\ ReadOnly

\* GET /register
RegisterGet ==
    /\ resp' = Html("register.html", "")
    /\ ReadOnly

\* GET /login
LoginGet ==
    /\ resp' = Html("login.html", "")
    /\ ReadOnly

\* GET /calendar/<segment>: the ICS file of the event.
CalendarGet(segment) ==
    /\ resp' =
          IF ~is_int(segment) THEN Plain(404, "Event not found")
          ELSE LET event == {e \in events : e.id = int(segment)} IN
               IF event = {} THEN Plain(404, "Event not found")
               ELSE Page("text/calendar",
                      [title |-> first(event).title,
                       description |-> first(event).description,
                       datetime |-> first(event).datetime,
                       location |-> first(event).location])
    /\ ReadOnly

\* GET /anonymous-rsvp/<segment>: the form, filled in from the query string.
AnonymousRsvpGet(segment, prefill_name) ==
    /\ resp' =
          IF ~is_int(segment) THEN Plain(404, "Event not found")
          ELSE LET event == {e \in events : e.id = int(segment)} IN
               IF event = {} THEN Plain(404, "Event not found")
               ELSE Page("anonymous_rsvp.html",
                      [title |-> first(event).title,
                       event_id |-> int(segment),
                       guest_name |-> prefill_name])
    /\ ReadOnly

\* GET /rsvp-thanks/<segment>: a fixed page; the database is not read.
RsvpThanksGet(segment) ==
    /\ resp' = IF ~is_int(segment) THEN Plain(404, "Event not found")
               ELSE Plain(200, "Thank You")
    /\ ReadOnly

\* GET of a path that no route matches.
UnknownGet ==
    /\ resp' = Plain(404, "Not Found")
    /\ ReadOnly

----------------------------------------------------------------------------
(* Requests *)

\* The Cookie header: a session id, or no session_id cookie.
Cookies == DOMAIN sessions \cup {NONE}
\* /event/1 is the default event; no row of events has id 2.
EventIds == {1, 2}

RegisterForm(name, email, password) ==
    [name |-> name, email |-> email, password |-> password]
LoginForm(email, password) == [email |-> email, password |-> password]
RsvpForm(response, adults_qty, kids_qty) ==
    [action |-> <<"rsvp">>, response |-> response,
     adults_qty |-> adults_qty, kids_qty |-> kids_qty,
     comment |-> EMPTY, comment_name |-> EMPTY]
CommentForm(comment, comment_name) ==
    [action |-> <<"comment">>, response |-> EMPTY,
     adults_qty |-> EMPTY, kids_qty |-> EMPTY,
     comment |-> comment, comment_name |-> comment_name]
AnonymousForm(guest_name, guest_email, guest_phone, rsvp, adults_qty, kids_qty) ==
    [guest_name |-> guest_name, guest_email |-> guest_email,
     guest_phone |-> guest_phone, rsvp |-> rsvp,
     adults_qty |-> adults_qty, kids_qty |-> kids_qty]
AdminForm(title, card_theme) ==
    [title |-> title, description |-> EMPTY, host |-> EMPTY,
     datetime |-> EMPTY, location |-> EMPTY, registry1 |-> EMPTY,
     registry2 |-> EMPTY, card_theme |-> card_theme]

\* The requests of a specification: D gives the values its form fields take.
NextOver(D) ==
    \/ Restart
    \/ \E name \in D.names, email \in D.emails, password \in D.passwords :
          RegisterPost(RegisterForm(name, email, password))
    \/ \E email \in D.emails, password \in D.passwords :
          LoginPost(LoginForm(email, password))
    \/ \E cookie \in Cookies : Logout(cookie)
    \/ \E event_id \in D.event_ids, cookie \in Cookies, body \in D.event_forms :
          EventPost(event_id, cookie, body)
    \/ \E event_id \in D.event_ids, cookie \in Cookies, body \in D.admin_forms :
          AdminEventPost(event_id, cookie, body)
    \/ \E event_id \in D.event_ids, body \in D.anonymous_forms :
          AnonymousRsvpPost(event_id, body)

\* Accounts in full, with one logged-in and one anonymous RSVP form.
AccountRequests ==
    [names |-> {<<"N">>, <<" ">>},
     emails |-> {<<" ", "a">>, <<"b">>, EMPTY},
     passwords |-> {<<"p">>, <<"q">>, EMPTY},
     event_ids |-> {1},
     event_forms |-> {RsvpForm(<<"yes">>, EMPTY, EMPTY)},
     admin_forms |-> {AdminForm(<<"T">>, <<"sunset">>),
                      AdminForm(EMPTY, EMPTY)},
     anonymous_forms |->
        {AnonymousForm(<<"G">>, EMPTY, <<"5">>, <<"yes">>, EMPTY, EMPTY)}]

\* RSVPs and comments in full, one account.
RsvpRequests ==
    [names |-> {<<"N">>},
     emails |-> {<<"a">>},
     passwords |-> {<<"p">>},
     event_ids |-> EventIds,
     event_forms |-> {RsvpForm(response, EMPTY, EMPTY) :
                         response \in {<<"yes">>, <<"no">>, EMPTY}}
                     \cup {CommentForm(<<"c">>, <<"n">>)},
     admin_forms |-> {AdminForm(<<"T">>, <<"sunset">>)},
     anonymous_forms |->
        {AnonymousForm(guest_name, EMPTY, guest_phone, rsvp, EMPTY, EMPTY) :
            guest_name \in {<<"G">>, EMPTY},
            guest_phone \in {<<"5">>, <<" ", "5">>, EMPTY},
            rsvp \in {<<"yes">>, <<"no">>, EMPTY}}]

\* The requests of NextOver and the GET requests of the two pages that show
\* stored data.
NextWithPages(D) ==
    \/ NextOver(D)
    \/ \E event_id \in D.event_ids, cookie \in Cookies, query \in D.queries :
          EventGet(event_id, cookie, query)
    \/ \E event_id \in D.event_ids, cookie \in Cookies :
          AdminEventGet(event_id, cookie)

\* One account and one event; a form of each kind that stores a row.
RowRequests ==
    [names |-> {<<"N">>},
     emails |-> {<<"a">>},
     passwords |-> {<<"p">>},
     event_ids |-> {1},
     event_forms |-> {RsvpForm(<<"yes">>, EMPTY, EMPTY),
                      CommentForm(<<"c">>, <<"n">>)},
     admin_forms |-> {AdminForm(<<"T">>, <<"sunset">>)},
     anonymous_forms |->
        {AnonymousForm(<<"G">>, EMPTY, <<"5">>, <<"yes">>, EMPTY, EMPTY)}]

\* One account; comments with blank and padded fields for both event ids; an
\* RSVP form without a response and an anonymous RSVP form whose quantity is
\* not a number, which store nothing.
CommentRequests ==
    [names |-> {<<"N">>},
     emails |-> {<<"a">>},
     passwords |-> {<<"p">>},
     event_ids |-> EventIds,
     event_forms |-> {RsvpForm(EMPTY, EMPTY, EMPTY),
                      CommentForm(<<" ", "c">>, <<"n", " ">>),
                      CommentForm(<<" ">>, <<"n">>),
                      CommentForm(<<"c">>, EMPTY)},
     admin_forms |-> {AdminForm(<<"T">>, <<"sunset">>)},
     anonymous_forms |->
        {AnonymousForm(<<"G">>, EMPTY, <<"5">>, <<"yes">>, <<"x">>, EMPTY)}]

\* One account; RSVPs with quantities, anonymous RSVPs with and without an
\* email address; the event and admin pages.
PageRequests ==
    [names |-> {<<"N">>},
     emails |-> {<<"a">>},
     passwords |-> {<<"p">>},
     event_ids |-> EventIds,
     event_forms |-> {RsvpForm(<<"yes">>, <<"2">>, <<"1">>),
                      RsvpForm(<<"no">>, EMPTY, EMPTY)},
     admin_forms |-> {AdminForm(<<"T">>, <<"sunset">>)},
     anonymous_forms |->
        {AnonymousForm(<<"G">>, <<"g">>, <<"5">>, <<"yes">>, EMPTY, EMPTY),
         AnonymousForm(<<"G">>, EMPTY, <<"5">>, <<"no">>, EMPTY, EMPTY)},
     queries |-> {NULL, <<"yes">>}]

\* Two accounts and the larger universe of session ids; forms that store
\* nothing.
SessionRequests ==
    [names |-> {<<"N">>},
     emails |-> {<<"a">>, <<"b">>},
     passwords |-> {<<"p">>},
     event_ids |-> {1},
     event_forms |-> {RsvpForm(EMPTY, EMPTY, EMPTY)},
     admin_forms |-> {AdminForm(<<"T">>, <<"sunset">>)},
     anonymous_forms |->
        {AnonymousForm(EMPTY, EMPTY, EMPTY, EMPTY, EMPTY, EMPTY)},
     queries |-> {NULL}]

\* The requests of NextOver, and anonymous RSVP requests whose two steps are
\* interleaved with the steps of other requests.
NextConcurrent(D) ==
    \/ NextOver(D)
    \/ \E w \in Workers, event_id \in D.event_ids, body \in D.anonymous_forms :
          AnonymousRsvpLookup(w, event_id, body)
    \/ \E w \in Workers : AnonymousRsvpFinish(w)

\* One account and one event; two guests who give the same phone number;
\* forms of the other handlers that store nothing.
ConcurrentRequests ==
    [names |-> {<<"N">>},
     emails |-> {<<"a">>},
     passwords |-> {<<"p">>},
     event_ids |-> {1},
     event_forms |-> {RsvpForm(EMPTY, EMPTY, EMPTY)},
     admin_forms |-> {AdminForm(<<"T">>, <<"sunset">>)},
     anonymous_forms |->
        {AnonymousForm(<<"G">>, EMPTY, <<"5">>, <<"yes">>, EMPTY, EMPTY),
         AnonymousForm(<<"H">>, EMPTY, <<"5">>, <<"no">>, EMPTY, EMPTY)}]

\* The requests of NextWithPages and the GET requests of every other path.
NextWithGets(D) ==
    \/ NextWithPages(D)
    \/ \E is_file \in BOOLEAN : StaticGet(is_file)
    \/ IndexGet
    \/ RegisterGet
    \/ LoginGet
    \/ \E segment \in D.segments : CalendarGet(segment)
    \/ \E segment \in D.segments, prefill_name \in D.prefills :
          AnonymousRsvpGet(segment, prefill_name)
    \/ \E segment \in D.segments : RsvpThanksGet(segment)
    \/ UnknownGet

\* One account and one event; a comment form and an anonymous RSVP form that
\* store rows; path segments that name the event, a missing event and no
\* number.
GetRequests ==
    [names |-> {<<"N">>},
     emails |-> {<<"a">>},
     passwords |-> {<<"p">>},
     event_ids |-> {1},
     event_forms |-> {CommentForm(<<"c">>, <<"n">>)},
     admin_forms |-> {AdminForm(<<"T">>, <<"sunset">>)},
     anonymous_forms |->
        {AnonymousForm(<<"G">>, EMPTY, <<"5">>, <<"yes">>, EMPTY, EMPTY)},
     queries |-> {NULL},
     segments |-> {<<"1">>, <<"2">>, <<"x">>},
     prefills |-> {<<"G">>}]

\* One account and one event; RSVPs that carry party quantities, a 'no' with
\* quantities and a 'yes' with no adults among them; the two pages.
PartyRequests ==
    [names |-> {<<"N">>},
     emails |-> {<<"a">>},
     passwords |-> {<<"p">>},
     event_ids |-> {1},
     event_forms |-> {RsvpForm(<<"no">>, <<"3">>, <<"2">>),
                      RsvpForm(<<"yes">>, <<"0">>, <<"2">>)},
     admin_forms |-> {AdminForm(<<"T">>, <<"sunset">>)},
     anonymous_forms |->
        {AnonymousForm(<<"G">>, EMPTY, <<"5">>, <<"no">>, <<"3">>, <<"2">>),
         AnonymousForm(<<"G">>, EMPTY, <<"5">>, <<"yes">>, <<"0">>, <<"1">>)},
     queries |-> {NULL}]

\* One account and one event; a logged-in RSVP and anonymous RSVPs that give
\* an email address, so that the guest and the host are written to.
EmailRequests ==
    [names |-> {<<"N">>},
     emails |-> {<<"a">>},
     passwords |-> {<<"p">>},
     event_ids |-> {1},
     event_forms |-> {RsvpForm(<<"yes">>, EMPTY, EMPTY)},
     admin_forms |-> {AdminForm(<<"T">>, <<"sunset">>)},
     anonymous_forms |->
        {AnonymousForm(<<"G">>, <<"g">>, <<"5">>, <<"yes">>, EMPTY, EMPTY),
         AnonymousForm(<<"G">>, <<"g">>, <<"5">>, <<"no">>, EMPTY, EMPTY)}]

Next == NextOver(AccountRequests)
NextRsvp == NextOver(RsvpRequests)
NextRows == NextOver(RowRequests)
NextComments == NextOver(CommentRequests)
NextPages == NextWithPages(PageRequests)
NextSessions == NextWithPages(SessionRequests)
NextWorkers == NextConcurrent(ConcurrentRequests)
NextParty == NextWithPages(PartyRequests)
NextEmail == NextOver(EmailRequests)
NextGets == NextWithGets(GetRequests)

\* Requests arrive one at a time, in any order, between restarts.
Spec == Init /\ [][Next]_vars
SpecRsvp == Init /\ [][NextRsvp]_vars
SpecRows == Init /\ [][NextRows]_vars
SpecComments == Init /\ [][NextComments]_vars
SpecPages == Init /\ [][NextPages]_vars
SpecSessions == InitSessions /\ [][NextSessions]_vars
SpecParty == Init /\ [][NextParty]_vars
SpecEmail == InitEmail /\ [][NextEmail]_vars
SpecGets == Init /\ [][NextGets]_vars
\* Requests are served by several workers at a time.
SpecWorkers == Init /\ [][NextWorkers]_vars

----------------------------------------------------------------------------
(* Properties *)

\* The invites rows of a registered user for an event.
InvitesOf(rows, event_id, user_id) ==
    {i \in rows : i.event_id = event_id /\ i.user_id = user_id}
\* The invites rows of an event.
InvitesFor(rows, event_id) == {i \in rows : i.event_id = event_id}

\* An anonymous RSVP form is invalid: empty name, empty phone, or rsvp not in
\* {yes, no}.
InvalidAnonymous(body) ==
    \/ strip(body.guest_name) = EMPTY
    \/ strip(body.guest_phone) = EMPTY
    \/ body.rsvp \notin {<<"yes">>, <<"no">>}

\* C1: after a logged-in RSVP submission (POST /event/<id>, action=rsvp,
\* response yes or no) there is exactly one invite row for that (event, user)
\* pair, and it holds the response just submitted.
C1_RsvpOverwritesPriorResponse ==
    [][\A event_id \in EventIds, cookie \in SIDs,
          response \in {<<"yes">>, <<"no">>} :
          (   sessions[cookie] # NONE
           /\ EventPost(event_id, cookie, RsvpForm(response, EMPTY, EMPTY)))
          => LET rows == InvitesOf(invites', event_id, sessions[cookie])
             IN Cardinality(rows) = 1 /\ \A i \in rows : i.rsvp = response]_vars

\* C2: over requests and restarts, an anonymous RSVP for event E with a
\* non-empty phone number that an earlier anonymous RSVP for E stored leaves
\* the number of invite rows of E unchanged.  (Stated for the existing events
\* and the valid forms, where no other defect of the handler interferes.)
C2_AnonymousDedupByPhone ==
    [][\A event_id \in {e.id : e \in events},
          body \in RsvpRequests.anonymous_forms :
          (/\ ~InvalidAnonymous(body)
           /\ <<event_id, strip(body.guest_phone)>> \in accepted
           /\ AnonymousRsvpPost(event_id, body))
          => Cardinality(InvitesFor(invites', event_id))
               = Cardinality(InvitesFor(invites, event_id))]_vars

\* C3: running init_db again leaves every row of users, events, invites and
\* comments with every column value unchanged.
C3_MigrationKeepsData ==
    [][Restart => (/\ users' = users /\ events' = events
                   /\ invites' = invites /\ comments' = comments)]_vars

\* C4: every invite row's event_id refers to an events row that exists.
C4_InviteBelongsToEvent ==
    \A i \in invites : \E e \in events : e.id = i.event_id

\* C5: every invite row is registered (user_id an existing user, is_anonymous
\* = 0) or anonymous (user_id NULL, is_anonymous = 1).
C5_RegisteredOrAnonymous ==
    \A i \in invites :
       \/ i.is_anonymous = 0 /\ \E u \in users : u.id = i.user_id
       \/ i.is_anonymous = 1 /\ i.user_id = NONE

\* C6: at most one user row has is_admin set, and when a user exists the
\* admin is the first user that registered (the row with the lowest id).
C6_AtMostOneAdmin ==
    /\ Cardinality({u \in users : u.is_admin # 0}) <= 1
    /\ users # {} => \A u \in users : (u.is_admin # 0) <=> (u = first(users))
\* Two users are registered and a further registration has just failed.
C6_Witness ==
    /\ Cardinality(users) = 2
    /\ resp = Html("register.html", "Email already registered.")

\* C7: an invalid anonymous RSVP submission with no existing row for its phone
\* is answered 200 with the anonymous RSVP form and its inline error, and no
\* invite row is created or changed.
C7_InvalidAnonymousRedisplaysForm ==
    [][\A event_id \in EventIds, body \in RsvpRequests.anonymous_forms :
          (/\ InvalidAnonymous(body)
           /\ ~(\E i \in invites : /\ i.event_id = event_id
                                   /\ i.is_anonymous = 1
                                   /\ i.guest_phone = strip(body.guest_phone))
           /\ AnonymousRsvpPost(event_id, body))
          => /\ resp' = Html("anonymous_rsvp.html",
                  "Please fill in your name, phone number, and select an RSVP option.")
             /\ invites' = invites]_vars

\* C8: a registration with an empty name, email or password is answered with
\* the registration form and 'Please fill all fields.'; one with all fields
\* filled whose email is already registered with the form and 'Email already
\* registered.'; both add no user row, no invite row and no session.
C8_FailedRegistrationAddsNothing ==
    [][\A name \in AccountRequests.names, email \in AccountRequests.emails,
          password \in AccountRequests.passwords :
          RegisterPost(RegisterForm(name, email, password)) =>
             /\ (strip(name) = EMPTY \/ strip(email) = EMPTY \/ password = EMPTY)
                  => /\ resp' = Html("register.html", "Please fill all fields.")
                     /\ UNCHANGED <<users, events, invites, comments, sessions>>
             /\ (   strip(name) # EMPTY /\ password # EMPTY
                 /\ \E u \in users : u.email = strip(email))
                  => /\ resp' = Html("register.html", "Email already registered.")
                     /\ UNCHANGED <<users, events, invites, comments, sessions>>]_vars
\* A registration with a taken email has just been refused while another
\* email is still free.
C8_Witness ==
    /\ resp = Html("register.html", "Email already registered.")
    /\ Cardinality(users) = 1 /\ Cardinality(invites) = 1

\* The user a cookie is logged in as is an administrator.
IsAdminSession(cookie) ==
    /\ cookie # NONE
    /\ \E u \in users : u.id = sessions[cookie] /\ u.is_admin # 0

\* C9: an events row changes only by POST /admin/event/<id> with a session of
\* a user with is_admin set; without a valid session the request is redirected
\* to /login, with a non-admin session it gets 403, and both leave events
\* unchanged.
C9_OnlyAdminEditsEvents ==
    [][/\ events' # events =>
            \E event_id \in AccountRequests.event_ids, cookie \in Cookies,
               body \in AccountRequests.admin_forms :
               IsAdminSession(cookie) /\ AdminEventPost(event_id, cookie, body)
       /\ \A event_id \in AccountRequests.event_ids, cookie \in Cookies,
             body \in AccountRequests.admin_forms :
             (AdminEventPost(event_id, cookie, body) /\ ~IsAdminSession(cookie))
             => /\ events' = events
                /\ IF get_user_from_session(cookie) = NONE
                   THEN resp' = Redirect(Location("/login", 0, EMPTY))
                   ELSE resp'.status = 403]_vars
\* A logged-in user who is not the administrator has just been refused, and
\* the administrator has edited the event before.
C9_Witness ==
    /\ resp.status = 403
    /\ \E e \in events : e.title = <<"T">>

\* C10: POST /login adds one unused session id mapped to user U exactly when
\* the email (trimmed, as the handler reads it) is U's and the hash of the
\* password is U's stored hash; otherwise the login form is shown again with
\* an error and the session store is unchanged.  The database is unchanged
\* either way, and the credentials of a successful registration satisfy the
\* condition for the user it created.
LoginUsers(email, password) ==
    {u \in users : /\ u.email = strip(email)
                   /\ u.password_hash = hash_password(password)}
C10_LoginIffCredentialsMatch ==
    [][/\ \A email \in AccountRequests.emails,
             password \in AccountRequests.passwords :
             LoginPost(LoginForm(email, password)) =>
                /\ UNCHANGED <<users, events, invites, comments>>
                /\ IF LoginUsers(email, password) # {}
                   THEN \E sid \in SIDs, u \in LoginUsers(email, password) :
                           /\ sessions[sid] = NONE
                           /\ sessions' = [sessions EXCEPT ![sid] = u.id]
                           /\ resp'.status = 302 /\ resp'.set_cookie = sid
                   ELSE /\ sessions' = sessions
                        /\ resp' = Html("login.html", "Invalid email or password.")
       /\ \A name \in AccountRequests.names, email \in AccountRequests.emails,
             password \in AccountRequests.passwords :
             (   RegisterPost(RegisterForm(name, email, password))
              /\ resp'.status = 302)
             => \E u \in users' \ users :
                   /\ u.email = strip(email)
                   /\ u.password_hash = hash_password(password)
                   /\ sessions'[resp'.set_cookie] = u.id]_vars
\* The first of two users with different passwords has just logged in: the
\* response sets a session cookie that maps to that user.
C10_Witness ==
    /\ resp.status = 302 /\ resp.set_cookie # NONE
    /\ resp.location = Location("/", 0, EMPTY)
    /\ \E u, v \in users :
          /\ u.id < v.id /\ u.password_hash # v.password_hash
          /\ sessions[resp.set_cookie] = u.id

----------------------------------------------------------------------------
(* Sessions *)

\* C11: a request to /logout carrying session id S leaves S mapped to no
\* user, every other session unchanged and the database unchanged; without a
\* cookie it changes nothing.  A request carrying a session id that maps to
\* no user is treated as not logged in (the admin page redirects to /login,
\* the event page greets a guest), and a session id that maps to no user maps
\* to one again only in the response that issues it.
C11_LogoutInvalidatesSession ==
    [][/\ \A cookie \in Cookies :
             Logout(cookie) =>
                /\ cookie # NONE => sessions'[cookie] = NONE
                /\ \A s \in DOMAIN sessions \ {cookie} : sessions'[s] = sessions[s]
                /\ UNCHANGED <<users, events, invites, comments>>
       /\ \A s \in DOMAIN sessions :
             sessions[s] = NONE =>
                /\ sessions'[s] # NONE => resp'.set_cookie = s
                /\ \A event_id \in SessionRequests.event_ids :
                      /\ \A body \in SessionRequests.admin_forms :
                            AdminEventPost(event_id, s, body)
                            => resp' = Redirect(Location("/login", 0, EMPTY))
                      /\ AdminEventGet(event_id, s)
                            => resp' = Redirect(Location("/login", 0, EMPTY))
                      /\ \A query \in SessionRequests.queries :
                            EventGet(event_id, s, query)
                            => /\ resp'.status = 200
                               /\ resp'.context.user_name = <<"Guest">>
                               /\ resp'.context.is_admin = 0]_vars
\* One user has just logged out while the other is still logged in.
C11_Witness ==
    /\ resp.set_cookie = EXPIRED
    /\ \E s, t \in DOMAIN sessions : sessions[s] = NONE /\ sessions[t] # NONE

----------------------------------------------------------------------------
(* Lifecycle of the rows *)

\* The primary keys of a table.
Ids(rows) == {r.id : r \in rows}

\* C12: over requests and restarts the sets of ids of the users, events,
\* invites and comments rows only grow.
C12_RowsNeverDeleted ==
    [][/\ Ids(users) \subseteq Ids(users')
       /\ Ids(events) \subseteq Ids(events')
       /\ Ids(invites) \subseteq Ids(invites')
       /\ Ids(comments) \subseteq Ids(comments')]_vars
\* The process has just restarted with rows in every table, among them a
\* second invite row that a logged-in RSVP added for the user's event.
C12_Witness ==
    /\ resp = NoResponse
    /\ users # {} /\ comments # {}
    /\ \E i, j \in invites :
          i.id # j.id /\ i.event_id = j.event_id /\ i.user_id = j.user_id

----------------------------------------------------------------------------
(* Accounts *)

\* C13: no two user rows have the same email, and the email of a user row
\* never changes.
C13_EmailsUnique ==
    [][/\ \A u, v \in users' : u.email = v.email => u = v
       /\ \A u \in users : \E v \in users' : v.id = u.id /\ v.email = u.email]_vars
\* Two users with the emails a and b are registered, and a registration with
\* one of these emails has just been refused.
C13_Witness ==
    /\ \E u, v \in users : u.email = <<"a">> /\ v.email = <<"b">>
    /\ resp.error = "Email already registered."

\* C14: a registration with a non-empty trimmed name, a non-empty trimmed
\* email that no user has, and a non-empty password adds exactly one user row
\* with a new id, exactly one invite row with a new id for that user (event
\* 1, rsvp NULL, not anonymous) and exactly one session, from an unused
\* session id (the one the response sets as cookie) to the new user's id;
\* events, comments, the other rows and the other sessions stay as they are.
C14_RegistrationAddsUserInviteSession ==
    [][\A name \in AccountRequests.names, email \in AccountRequests.emails,
          password \in AccountRequests.passwords :
          (/\ RegisterPost(RegisterForm(name, email, password))
           /\ strip(name) # EMPTY /\ strip(email) # EMPTY /\ password # EMPTY
           /\ \A u \in users : u.email # strip(email))
          => /\ users \subseteq users' /\ invites \subseteq invites'
             /\ Cardinality(users' \ users) = 1
             /\ Cardinality(invites' \ invites) = 1
             /\ \A u \in users' \ users, i \in invites' \ invites :
                   /\ u.id \notin Ids(users) /\ i.id \notin Ids(invites)
                   /\ u.name = strip(name) /\ u.email = strip(email)
                   /\ u.password_hash = hash_password(password)
                   /\ i.event_id = 1 /\ i.user_id = u.id
                   /\ i.rsvp = NULL /\ i.is_anonymous = 0
                   /\ \E sid \in DOMAIN sessions :
                         /\ sessions[sid] = NONE
                         /\ sessions' = [sessions EXCEPT ![sid] = u.id]
                         /\ resp'.status = 302 /\ resp'.set_cookie = sid
             /\ UNCHANGED <<events, comments>>]_vars
\* The second user is registered, holds the cookie of the last response and
\* has an invite of their own.
C14_Witness ==
    /\ resp.status = 302 /\ resp.location = Location("/", 0, EMPTY)
    /\ \E u, v \in users, i \in invites :
          /\ u.id < v.id /\ sessions[resp.set_cookie] = v.id
          /\ i.user_id = v.id /\ i.rsvp = NULL /\ i.event_id = 1

\* C15: after a restart no session id maps to a user, while every users,
\* events and comments row is as it was and every invites row is still there
\* (the same apart from guest_phone).
C15_RestartLosesSessions ==
    [][Restart =>
          /\ \A s \in DOMAIN sessions' : sessions'[s] = NONE
          /\ users' = users /\ events' = events /\ comments' = comments
          /\ Ids(invites') = Ids(invites)
          /\ \A i \in invites : \E j \in invites' :
                j = [i EXCEPT !.guest_phone = j.guest_phone]]_vars
\* The process has just restarted with no session left; the administrator
\* had edited the event while logged in, and a comment is stored.
C15_Witness ==
    /\ resp = NoResponse
    /\ \A s \in DOMAIN sessions : sessions[s] = NONE
    /\ \E e \in events : e.title = <<"T">>
    /\ \E c \in comments : c.user_id # NONE

\* C16: after init_db there is at least one event; init_db inserts the
\* default event only into an empty events table and leaves a non-empty one
\* as it is; and init_db applied to its own result changes nothing.
C16_InitDbIdempotent ==
    [][Restart =>
          /\ events' # {}
          /\ events # {} => events' = events
          /\ events = {} => events' = {DefaultEvent}
          /\ migrate_invites(invites') = invites'
          /\ default_records(events') = events'
          /\ users' = users /\ comments' = comments]_vars
\* init_db has just run on a database with an edited event and an anonymous
\* RSVP, whose phone number this run or an earlier one has set to NULL.
C16_Witness ==
    /\ resp = NoResponse
    /\ events # {DefaultEvent}
    /\ \E i \in invites : i.is_anonymous = 1 /\ i.guest_phone = NULL

----------------------------------------------------------------------------
(* Confirmation emails *)

\* The addresses the confirmation step is to write to for an RSVP to an
\* event: nobody when the event does not exist, else the guest when the
\* guest's address is known, then the host when an admin user exists.
ConfirmationRecipients(event_id, guest_email) ==
    IF \A e \in events : e.id # event_id THEN <<>>
    ELSE (IF guest_email # EMPTY /\ guest_email # NULL
          THEN <<guest_email>> ELSE <<>>)
         \o (IF \E u \in users : u.is_admin = 1
             THEN <<(CHOOSE u \in users : u.is_admin = 1).email>> ELSE <<>>)

\* The address of the user a cookie is logged in as, NULL without a session.
EmailOfSession(cookie) ==
    IF get_user_from_session(cookie) = NONE THEN NULL
    ELSE (CHOOSE u \in users : u.id = get_user_from_session(cookie)).email

\* The addresses of the calls of send_email of the last request.
Recipients(mails) == [k \in DOMAIN mails |-> mails[k].to_email]

\* C17: every request that stores an RSVP (a POST /event/<id> RSVP that adds
\* an invite row, an anonymous RSVP that is answered with the redirect) makes
\* the calls of send_email of the confirmation step: to the guest when the
\* address is known, then to the host when an admin exists, none when the
\* event does not exist; and no other request makes a call of send_email.
C17_RsvpSendsConfirmationEmails ==
    [][/\ \A event_id \in EventIds, cookie \in Cookies,
             body \in PageRequests.event_forms :
             (EventPost(event_id, cookie, body) /\ invites' # invites)
             => Recipients(outbox')
                  = ConfirmationRecipients(event_id, EmailOfSession(cookie))
       /\ \A event_id \in EventIds, body \in PageRequests.anonymous_forms :
             (AnonymousRsvpPost(event_id, body) /\ resp'.status = 302)
             => Recipients(outbox')
                  = ConfirmationRecipients(event_id, strip(body.guest_email))
       /\ outbox' # NoMail
             => \/ \E event_id \in EventIds, cookie \in Cookies,
                      body \in PageRequests.event_forms :
                      EventPost(event_id, cookie, body) /\ invites' # invites
                \/ \E event_id \in EventIds,
                      body \in PageRequests.anonymous_forms :
                      AnonymousRsvpPost(event_id, body) /\ resp'.status = 302]_vars

----------------------------------------------------------------------------
(* The admin page *)

\* The number of invite rows of an event whose rsvp is one of the values.
CountRsvp(event_id, values) ==
    Cardinality({i \in InvitesFor(invites, event_id) : i.rsvp \in values})

\* C18: for every event id, the statistics computed from the database count
\* the invite rows of that event with rsvp 'yes' as attending, with 'no' as
\* not_attending and all its other rows as no_response, so the three add up
\* to the number of invite rows of the event; and the admin page shows these
\* numbers for its event.
C18_StatsPartitionInvites ==
    /\ \A event_id \in EventIds :
          LET stats == rsvp_stats(guest_rows(event_id)) IN
          /\ stats.attending = CountRsvp(event_id, {<<"yes">>})
          /\ stats.not_attending = CountRsvp(event_id, {<<"no">>})
          /\ stats.no_response =
                Cardinality({i \in InvitesFor(invites, event_id) :
                                i.rsvp \notin {<<"yes">>, <<"no">>}})
          /\ stats.attending + stats.not_attending + stats.no_response
                = Cardinality(InvitesFor(invites, event_id))
    /\ resp.body = "admin.html" =>
          LET shown == resp.context.rsvp_stats
              event_id == resp.context.event_id
          IN /\ shown.attending = CountRsvp(event_id, {<<"yes">>})
             /\ shown.not_attending = CountRsvp(event_id, {<<"no">>})
             /\ shown.attending + shown.not_attending + shown.no_response
                   = Cardinality(InvitesFor(invites, event_id))
\* The admin page of event 1 counts one attending anonymous guest and the
\* administrator's own unanswered invite.
C18_Witness ==
    /\ resp.body = "admin.html"
    /\ resp.context.rsvp_stats.attending = 1
    /\ resp.context.rsvp_stats.no_response = 1
    /\ \E i \in invites : i.is_anonymous = 1 /\ i.event_id = 1

----------------------------------------------------------------------------
(* Comments *)

\* C19: POST /event/<id> with action=comment adds exactly one comments row,
\* with a new id, for that event id and the user of the session (no user
\* without a session), holding the trimmed text and name, when both are
\* non-empty after trimming; otherwise it adds nothing.  Either way the
\* response is the redirect to /event/<id>, the comments stored before are
\* unchanged, and so are users, events, invites and sessions.
C19_CommentAddsOneRow ==
    [][\A event_id \in EventIds, cookie \in Cookies,
          body \in {f \in CommentRequests.event_forms : f.action = <<"comment">>} :
          EventPost(event_id, cookie, body) =>
             /\ resp' = Redirect(Location("/event/", event_id, EMPTY))
             /\ UNCHANGED <<users, events, invites, sessions>>
             /\ IF strip(body.comment) # EMPTY /\ strip(body.comment_name) # EMPTY
                THEN /\ comments \subseteq comments'
                     /\ Cardinality(comments' \ comments) = 1
                     /\ \A c \in comments' \ comments :
                           /\ c.id \notin Ids(comments)
                           /\ c.event_id = event_id
                           /\ c.user_id = IF cookie = NONE THEN NONE
                                          ELSE sessions[cookie]
                           /\ c.comment = strip(body.comment)
                           /\ c.comment_name = strip(body.comment_name)
                ELSE comments' = comments]_vars
\* A logged-in user has just commented on /event/2 after a guest without a
\* session commented on /event/1; the stored text and name are trimmed.
C19_Witness ==
    /\ resp = Redirect(Location("/event/", 2, EMPTY))
    /\ \E c, d \in comments :
          /\ c.id < d.id /\ c.user_id = NONE /\ c.event_id = 1
          /\ d.user_id # NONE /\ d.event_id = 2
          /\ d.comment = <<"c">> /\ d.comment_name = <<"n">>

----------------------------------------------------------------------------
(* The event page *)

\* The invite row that the latest RSVP submission of a user for an event
\* stored: of the rows of the pair that hold a response, the one with the
\* highest id (ids are handed out in increasing order).
LatestRsvp(event_id, user_id) ==
    LET rows == {i \in InvitesOf(invites, event_id, user_id) :
                    i.is_anonymous = 0 /\ i.rsvp \in {<<"yes">>, <<"no">>}}
    IN CHOOSE i \in rows : \A j \in rows : j.id <= i.id

\* C20: once a logged-in user has submitted a response for an existing
\* event, every GET /event/<id> with a session of that user renders the
\* response and the quantities of the user's latest submission.
C20_EventPageShowsCurrentRsvp ==
    [][\A event_id \in EventIds, cookie \in DOMAIN sessions,
          query \in PageRequests.queries :
          (/\ EventGet(event_id, cookie, query)
           /\ sessions[cookie] # NONE
           /\ \E e \in events : e.id = event_id
           /\ \E i \in InvitesOf(invites, event_id, sessions[cookie]) :
                 i.is_anonymous = 0 /\ i.rsvp \in {<<"yes">>, <<"no">>})
          => LET latest == LatestRsvp(event_id, sessions[cookie]) IN
             /\ resp'.status = 200
             /\ resp'.context.rsvp_status = latest.rsvp
             /\ resp'.context.adults_qty = latest.adults_qty
             /\ resp'.context.kids_qty = latest.kids_qty]_vars

----------------------------------------------------------------------------
(* Validity of the stored anonymous RSVPs *)

\* C21: every invite row with is_anonymous = 1 has a non-empty guest_name
\* and an rsvp value in {yes, no}.  (Stated for the rows of the existing
\* events: a row of a missing event is stored without the validation.)
C21_AnonymousRowsValid ==
    \A i \in invites :
       (i.is_anonymous = 1 /\ \E e \in events : e.id = i.event_id)
       => /\ i.guest_name # EMPTY
          /\ i.rsvp \in {<<"yes">>, <<"no">>}

----------------------------------------------------------------------------
(* Concurrent anonymous RSVPs *)

\* C23: also when the steps of anonymous RSVP requests are interleaved, at
\* most one anonymous invite row exists for an event and a phone number.
\* (Rows whose phone a restart has set to NULL are left out.)
C23_DedupUnderConcurrency ==
    \A i, j \in invites :
       (/\ i.is_anonymous = 1 /\ j.is_anonymous = 1
        /\ i.event_id = j.event_id
        /\ i.guest_phone = j.guest_phone
        /\ i.guest_phone # NULL)
       => i = j

----------------------------------------------------------------------------
(* Failing email *)

\* What a call of send_email returns under the condition smtp: True when
\* the message was sent, False otherwise; it does not raise.
ReturnsWithoutRaising(mails) ==
    \A k \in DOMAIN mails :
       mails[k].returned = IF smtp = "sent" THEN "True" ELSE "False"

\* C25: whatever the attempts to deliver meet (no SMTP configuration, a DNS
\* failure, an SMTP error, success), every call of send_email returns (False
\* unless the message was sent), the invite row the RSVP request wrote is in
\* the table, and the request is answered with the 302 redirect to the
\* event page.
C25_EmailFailureKeepsRsvp ==
    [][/\ \A event_id \in EventIds, cookie \in Cookies,
             body \in EmailRequests.event_forms :
             EventPost(event_id, cookie, body)
             => /\ ReturnsWithoutRaising(outbox')
                /\ resp' = Redirect(Location("/event/", event_id, EMPTY))
                /\ \E i \in invites' \ invites :
                      /\ i.event_id = event_id /\ i.rsvp = body.response
                      /\ i.user_id = (IF cookie = NONE THEN NONE
                                      ELSE sessions[cookie])
       /\ \A event_id \in EventIds, body \in EmailRequests.anonymous_forms :
             AnonymousRsvpPost(event_id, body)
             => /\ ReturnsWithoutRaising(outbox')
                /\ resp' = Redirect(Location("/event/", event_id,
                                             <<"rsvp_success=">> \o body.rsvp))
                /\ \E i \in invites' :
                      /\ i.event_id = event_id /\ i.is_anonymous = 1
                      /\ i.guest_phone = body.guest_phone
                      /\ i.guest_name = body.guest_name
                      /\ i.guest_email = body.guest_email
                      /\ i.rsvp = body.rsvp]_vars
\* An anonymous RSVP has just been stored and answered with the redirect
\* while both of its emails, to the guest and to the host, met an SMTP error.
C25_Witness ==
    /\ smtp = "smtp_error"
    /\ Len(outbox) = 2
    /\ \A k \in DOMAIN outbox : outbox[k].returned = "False"
    /\ resp = Redirect(Location("/event/", 1, <<"rsvp_success=", "yes">>))
    /\ \E i \in invites : i.is_anonymous = 1 /\ i.rsvp = <<"yes">>

----------------------------------------------------------------------------
(* Party quantities *)

\* C24: every invite row with rsvp 'no' has the default quantities,
\* adults_qty = 1 and kids_qty = 0, whatever quantities were submitted and
\* whichever RSVP path stored the response.
C24_NoClearsQuantities ==
    \A i \in invites :
       i.rsvp = <<"no">> => i.adults_qty = 1 /\ i.kids_qty = 0

\* The sum of a quantity over a set of invite rows.
RECURSIVE SumQty(_, _)
SumQty(rows, column) ==
    IF rows = {} THEN 0
    ELSE LET i == CHOOSE x \in rows : TRUE
         IN i[column] + SumQty(rows \ {i}, column)

\* C26: for every event, total_adults is the sum of the stored adults_qty
\* and total_kids the sum of the stored kids_qty over the invite rows of the
\* event with rsvp 'yes'; and the admin page shows these totals.
C26_TotalsEqualStoredQuantities ==
    /\ \A event_id \in EventIds :
          LET stats == rsvp_stats(guest_rows(event_id))
              attending == {i \in InvitesFor(invites, event_id) :
                               i.rsvp = <<"yes">>}
          IN /\ stats.total_adults = SumQty(attending, "adults_qty")
             /\ stats.total_kids = SumQty(attending, "kids_qty")
    /\ resp.body = "admin.html" =>
          LET shown == resp.context.rsvp_stats
              attending == {i \in InvitesFor(invites, resp.context.event_id) :
                               i.rsvp = <<"yes">>}
          IN /\ shown.total_adults = SumQty(attending, "adults_qty")
             /\ shown.total_kids = SumQty(attending, "kids_qty")

----------------------------------------------------------------------------
(* Frames *)

\* C27: a GET of /, /register, /login, /event/<id>, /calendar/<id>,
\* /admin/event/<id>, /anonymous-rsvp/<id>, /rsvp-thanks/<id>, /static/... or
\* of an unknown path leaves every row of users, events, invites and
\* comments and the session store unchanged.
C27_GetIsReadOnly ==
    [][(\/ \E is_file \in BOOLEAN : StaticGet(is_file)
        \/ IndexGet
        \/ RegisterGet
        \/ LoginGet
        \/ \E event_id \in EventIds, cookie \in Cookies,
               query \in GetRequests.queries :
               EventGet(event_id, cookie, query)
        \/ \E segment \in GetRequests.segments : CalendarGet(segment)
        \/ \E event_id \in EventIds, cookie \in Cookies :
               AdminEventGet(event_id, cookie)
        \/ \E segment \in GetRequests.segments,
               prefill_name \in GetRequests.prefills :
               AnonymousRsvpGet(segment, prefill_name)
        \/ \E segment \in GetRequests.segments : RsvpThanksGet(segment)
        \/ UnknownGet)
       => UNCHANGED <<users, events, invites, comments, sessions>>]_vars
\* The event page has just been served to a logged-in user while the tables
\* hold an invite and a comment.
C27_Witness ==
    /\ resp.body = "event.html"
    /\ \E s \in DOMAIN sessions : sessions[s] # NONE
    /\ invites # {} /\ comments # {}

\* C28: POST /admin/event/<id> by an admin leaves the id and header_image
\* of that event, every other events row, and all users, invites, comments
\* and sessions unchanged; when no event has that id nothing changes; in
\* both cases the response is the redirect to /event/<id>.
C28_AdminUpdateFrame ==
    [][\A event_id \in EventIds, cookie \in Cookies,
          body \in PageRequests.admin_forms :
          (IsAdminSession(cookie) /\ AdminEventPost(event_id, cookie, body))
          => /\ UNCHANGED <<users, invites, comments, sessions>>
             /\ {e \in events' : e.id # event_id}
                   = {e \in events : e.id # event_id}
             /\ {<<e.id, e.header_image>> : e \in events'}
                   = {<<e.id, e.header_image>> : e \in events}
             /\ Cardinality(events') = Cardinality(events)
             /\ (\A e \in events : e.id # event_id) => events' = events
             /\ resp' = Redirect(Location("/event/", event_id, EMPTY))]_vars
\* The admin has just updated event 1: its title and theme are the submitted
\* ones, its header image is the original one, and invites exist.
C28_Witness ==
    /\ resp = Redirect(Location("/event/", 1, EMPTY))
    /\ \E e \in events : /\ e.id = 1 /\ e.title = <<"T">>
                         /\ e.card_theme = <<"sunset">>
                         /\ e.header_image = <<"header.png">>
    /\ \E s \in DOMAIN sessions : IsAdminSession(s)
    /\ invites # {}

----------------------------------------------------------------------------
(* Statuses *)

\* C22: every request is answered with a status in {200, 302, 403, 404} and
\* never ends in an unhandled exception.
C22_GenericStatus ==
    resp # NoResponse => resp.status \in {200, 302, 403, 404}

====
